---- MODULE Spec2Model ----
(***************************************************************************)
(* The flat-file content store of the portfolio backends: the posts and    *)
(* projects routes of the three server variants (src/unnamed/part_000,     *)
(* src/unnamed/part_001, src/index.js).  A request handler is an async     *)
(* function; it runs synchronously up to an await of a file-system         *)
(* operation, and resumes when that operation has completed.  One action   *)
(* of the model is the completion of one awaited file-system operation     *)
(* followed by the synchronous code that runs until the next await (or     *)
(* until the response is sent).  The program counter of a request names    *)
(* the file-system operation it is waiting for.                            *)
(***************************************************************************)
EXTENDS Integers, Sequences, FiniteSets, TLC

\* ---------------------------------------------------------------- bounds
MaxRequests == 2    \* requests that arrive in one behaviour

Procs == {1, 2}                             \* slots for requests in flight
Variants == {"part_000", "part_001", "index.js"}
Colls == {"posts", "projects"}
Ticks == {1, 2}                             \* the milliseconds the clock shows

\* ---------------------------------------------------------------- values
\* JavaScript's null and undefined; no request string of the model equals them.
null == "<null>"
undefined == "<undefined>"

Falsy(v) == v \in {null, undefined, ""}

\* body.f of a parsed request body (undefined when the field is absent)
Get(body, f) == IF f \in DOMAIN body THEN body[f] ELSE undefined

\* a || b
OrElse(a, b) == IF Falsy(a) THEN b ELSE a

\* String.prototype.startsWith
StartsWith(s, pre) == Len(s) >= Len(pre) /\ SubSeq(s, 1, Len(pre)) = pre

\* position of the last "/" of s at or before i (0 when there is none)
RECURSIVE LastSlash(_, _)
LastSlash(s, i) ==
  IF i = 0 THEN 0
  ELSE IF SubSeq(s, i, i) = "/" THEN i
  ELSE LastSlash(s, i - 1)

\* position of the first "/../" of s at or after i (0 when there is none)
RECURSIVE FirstDotDot(_, _)
FirstDotDot(s, i) ==
  IF i + 3 > Len(s) THEN 0
  ELSE IF SubSeq(s, i, i + 3) = "/../" THEN i
  ELSE FirstDotDot(s, i + 1)

\* path.join(__dirname, media), as a path relative to the application
\* directory: path.join normalises the result, so that a ".." segment
\* removes the segment before it.
RECURSIVE PathJoin(_)
PathJoin(media) ==
  LET d == FirstDotDot(media, 1) IN
  IF d = 0 THEN media
  ELSE LET k == LastSlash(media, d - 1) IN
       IF k = 0 THEN SubSeq(media, d + 3, Len(media))
       ELSE PathJoin(SubSeq(media, 1, k - 1) \o SubSeq(media, d + 3, Len(media)))

\* the files the store keeps, as paths relative to the application directory
POSTS_FILE == "/posts.json"
PROJECTS_FILE == "/projects.json"
UPLOAD_DIR == "/uploads"

BackingFile(c) == IF c = "posts" THEN POSTS_FILE ELSE PROJECTS_FILE

\* multer's filename callback: `${Date.now()}-${originalname with _ for blanks}`
UploadName(now, originalname) == ToString(now) \o "-" \o originalname

\* the inline image's file name: `${Date.now()}.png`
InlineName(now) == ToString(now) \o ".png"

\* path.join(UPLOAD_DIR, filename), and the URL `/uploads/${filename}`: the
\* two are the same string relative to the application directory
UploadPath(filename) == UPLOAD_DIR \o "/" \o filename

\* ---------------------------------------------------------------- requests
InlineImage == "data:image/png;base64,AAAA"

\* a create: the parsed body and the original name of the uploaded file ("" for none)
CreateInputs ==
  { <<[title |-> "T", content |-> "C"], "">>,
    <<[title |-> "T", content |-> "C"], "a.png">>,
    <<[title |-> "T"], "">>,
    <<[title |-> "", content |-> "C"], "a.png">>,
    <<[title |-> "T2", content |-> "C", type |-> "news", link |-> "L",
       blogLink |-> "B", media |-> InlineImage], "">> }

UpdateBodies ==
  { [title |-> "T3", media |-> "/uploads/../projects.json"],
    [id |-> 0, updatedAt |-> 0, createdAt |-> 0] }

\* ids a client asks for: the server's clock starts at 1, and 0 is the id of
\* the record an earlier run may have left in the backing file
Ids == {0} \cup Ticks

Req(m, c, i, b, f) == [method |-> m, coll |-> c, id |-> i, body |-> b, file |-> f]

\* the routes each variant registers
Routes(v) ==
  CASE v = "part_000" ->
         {<<"GET", c>> : c \in Colls} \cup {<<"POST", c>> : c \in Colls}
           \cup {<<"PUT", "posts">>} \cup {<<"DELETE", c>> : c \in Colls}
    [] v = "part_001" ->
         {<<"GET", c>> : c \in Colls} \cup {<<"POST", c>> : c \in Colls}
           \cup {<<"DELETE", "posts">>}
    [] OTHER ->
         {<<"GET", c>> : c \in Colls} \cup {<<"POST", c>> : c \in Colls}

Requests(v, t) ==
  UNION { CASE r[1] = "GET" -> {Req("GET", r[2], 0, <<>>, "")}
            [] r[1] = "POST" ->
                 {Req("POST", r[2], 0, i[1], i[2]) : i \in CreateInputs}
            [] r[1] = "PUT" ->
                 {Req("PUT", r[2], i, b, "") : i \in Ids, b \in UpdateBodies}
            [] OTHER -> {Req("DELETE", r[2], i, <<>>, "") : i \in Ids}
          : r \in {x \in Routes(v) : x[2] = t} }

\* ---------------------------------------------------------------- state
VARIABLES
  variant,   \* which server file is running
  target,    \* the collection the requests of this behaviour address
  clock,     \* Date.now() when the server last read it, in milliseconds
  json,      \* the two backing files: whether each exists, and the array it holds
  uploads,   \* the paths of the other files under the application directory
  proc,      \* the request each slot is serving and the handler's locals
  started,   \* requests that have arrived so far
  plain,     \* history: so far only lists and successful creates, one at a time
  created    \* history: while plain, the records the creates returned, in order

vars == <<variant, target, clock, json, uploads, proc, started, plain, created>>

IdleProc ==
  [pc |-> "idle",                       \* the awaited operation
   req |-> Req("", "", 0, <<>>, ""),   \* the request
   rec |-> <<>>,       \* newPost / newProject / the merged record (none or one)
   loaded |-> <<>>,    \* delete: the array as loaded (posts, projects)
   data |-> <<>>,      \* the array the handler will write
   path |-> "",        \* the file the handler is writing or removing
   resp |-> <<>>,      \* the responses sent
   touched |-> {},     \* history: the files this request wrote or removed
   failed |-> "",      \* history: the operation that threw
   sends |-> 0]        \* history: the calls of transporter.sendMail

InFlight(st) == st.pc \notin {"idle", "done"}

\* ---------------------------------------------------------------- responses
\* res.status(s).json(b): the handler is over; its locals are dropped.  The
\* method, collection and id of the request stay for the record.
Respond(st, s, b) ==
  [st EXCEPT !.pc = "done",
             !.resp = Append(@, [status |-> s, body |-> b]),
             !.req = Req(st.req.method, st.req.coll, st.req.id, <<>>, ""),
             !.rec = <<>>, !.loaded = <<>>, !.data = <<>>, !.path = ""]

\* the handler's promise rejects and nothing answers the request
NoResponse(st, op) ==
  [st EXCEPT !.pc = "done", !.failed = op,
             !.req = Req(st.req.method, st.req.coll, st.req.id, <<>>, ""),
             !.rec = <<>>, !.loaded = <<>>, !.data = <<>>, !.path = ""]

\* An awaited operation throws inside a handler.  part_000 and part_001 wrap
\* the handler body in try/catch and answer 500.  index.js has no try/catch:
\* the async handler's promise rejects; Express 4 leaves the request without
\* a response, Express 5 forwards the rejection to its error handler (500).
Throw(v, st, op) ==
  IF v \in {"part_000", "part_001"}
  THEN {Respond([st EXCEPT !.failed = op], 500, <<>>)}
  ELSE {NoResponse(st, op), Respond([st EXCEPT !.failed = op], 500, <<>>)}

\* multer passes its error to next(err): Express's final handler answers 500
MulterError(st, op) == Respond([st EXCEPT !.failed = op], 500, <<>>)

\* ---------------------------------------------------------------- create
\* the object literal newPost / newProject
NewRecord(v, c, body, mediaUrl, now) ==
  IF c = "projects"
  THEN [id |-> now, title |-> Get(body, "title"), media |-> mediaUrl,
        link |-> OrElse(Get(body, "link"), null), createdAt |-> now]
  ELSE IF v = "index.js"
  THEN [id |-> now, title |-> Get(body, "title"), content |-> Get(body, "content"),
        media |-> mediaUrl, createdAt |-> now]
  ELSE [id |-> now, title |-> Get(body, "title"), content |-> Get(body, "content"),
        type |-> OrElse(Get(body, "type"), "blog"),
        link |-> OrElse(Get(body, "link"), null),
        blogLink |-> OrElse(Get(body, "blogLink"), null),
        media |-> mediaUrl, createdAt |-> now]

\* if (!title || !content) / if (!title)
Invalid(c, body) ==
  IF c = "posts"
  THEN Falsy(Get(body, "title")) \/ Falsy(Get(body, "content"))
  ELSE Falsy(Get(body, "title"))

\* else if (media && media.startsWith("data:image")): part_000 only
IsInline(v, body) ==
  /\ v = "part_000"
  /\ ~Falsy(Get(body, "media"))
  /\ StartsWith(Get(body, "media"), "data:image")

\* The create handler from its first line to its first await.  fileUrl is
\* `/uploads/${req.file.filename}` when multer stored a file, null otherwise.
CreateStart(v, st, fileUrl, now) ==
  IF Invalid(st.req.coll, st.req.body)
  THEN Respond(st, 400, <<>>)
  ELSE IF fileUrl # null
  THEN [st EXCEPT !.pc = "pathExists",
                  !.rec = <<NewRecord(v, st.req.coll, st.req.body, fileUrl, now)>>]
  ELSE IF IsInline(v, st.req.body)
  THEN [st EXCEPT !.pc = "writeInline", !.path = UploadPath(InlineName(now))]
  ELSE [st EXCEPT !.pc = "pathExists",
                  !.rec = <<NewRecord(v, st.req.coll, st.req.body, null, now)>>]

\* the create handler after the inline image is written
CreateAfterInline(v, st, now) ==
  [st EXCEPT !.pc = "pathExists", !.path = "",
             !.rec = <<NewRecord(v, st.req.coll, st.req.body, st.path, now)>>]

\* a create that pushed the record at the end of the array
UnshiftAtEnd(data, r) == Append(data, r)

\* posts.unshift(newPost)
Unshift(data, r) == <<r>> \o data

\* ---------------------------------------------------------------- update
\* posts.findIndex((p) => p.id === id), 1-based; 0 stands for -1
FindIndex(data, id) ==
  IF \E i \in 1 .. Len(data) : data[i].id = id
  THEN CHOOSE i \in 1 .. Len(data) :
         /\ data[i].id = id
         /\ \A j \in 1 .. (i - 1) : data[j].id # id
  ELSE 0

\* an update that spread the body last: { ...posts[index], updatedAt, ...updates }
MergeBodyLast(old, updates, now) ==
  [f \in (DOMAIN old) \cup (DOMAIN updates) \cup {"updatedAt"} |->
     IF f \in DOMAIN updates THEN updates[f]
     ELSE IF f = "updatedAt" THEN now
     ELSE old[f]]

\* { ...posts[index], ...updates, updatedAt: new Date().toISOString() }
Merge(old, updates, now) ==
  [f \in (DOMAIN old) \cup (DOMAIN updates) \cup {"updatedAt"} |->
     IF f = "updatedAt" THEN now
     ELSE IF f \in DOMAIN updates THEN updates[f]
     ELSE old[f]]

\* ---------------------------------------------------------------- delete
\* posts.filter((p) => p.id !== id)
Filter(data, id) == SelectSeq(data, LAMBDA r : r.id # id)

\* postToDelete.media && postToDelete.media.startsWith("/uploads")
HasUploadedMedia(r) == ~Falsy(r.media) /\ StartsWith(r.media, "/uploads")

\* ---------------------------------------------------------------- handlers
\* The handler from the line after `await loadData(...)` to its next await.
AfterLoad(v, st, data, now) ==
  LET id == st.req.id IN
  CASE st.req.method = "GET" -> Respond(st, 200, data)
    [] st.req.method = "POST" ->
         [st EXCEPT !.pc = "writeJson", !.data = Unshift(data, st.rec[1])]
    [] st.req.method = "PUT" ->
         LET index == FindIndex(data, id) IN
         IF index = 0 THEN Respond(st, 404, <<>>)
         ELSE LET merged == Merge(data[index], st.req.body, now) IN
              [st EXCEPT !.pc = "writeJson",
                         !.data = [data EXCEPT ![index] = merged],
                         !.rec = <<merged>>]
    [] OTHER ->
         LET updated == Filter(data, id)
             index == FindIndex(data, id)
         IN IF v = "part_000"
            THEN IF index = 0 THEN Respond(st, 404, <<>>)
                 ELSE IF HasUploadedMedia(data[index])
                 THEN [st EXCEPT !.pc = "mediaExists", !.loaded = data,
                                 !.data = updated,
                                 !.path = PathJoin(data[index].media)]
                 ELSE [st EXCEPT !.pc = "writeJson", !.loaded = data,
                                 !.data = updated]
            ELSE IF Len(data) = Len(updated) THEN Respond(st, 404, <<>>)
                 ELSE [st EXCEPT !.pc = "writeJson", !.loaded = data,
                                 !.data = updated]

\* The handler after `await fs.writeJson(FILE, ...)`: the response.
AfterWrite(st) ==
  CASE st.req.method = "POST" -> Respond(st, 201, st.rec)
    [] st.req.method = "PUT" -> Respond(st, 200, st.rec)
    [] OTHER -> Respond(st, 200, <<>>)

\* ---------------------------------------------------------------- file system
\* a loadData that wrote the empty array without looking for the file
LoadNextAlwaysInit(exists) == "writeInit"

\* loadData: if (!(await fs.pathExists(filePath))) await fs.writeJson(filePath, [])
LoadNext(exists) == IF exists THEN "readJson" ELSE "writeInit"

\* a write that kept the records of the file that the array does not hold
FileAfterWriteKeeping(file, array) ==
  [exists |-> TRUE,
   data |-> array \o SelectSeq(file.data,
                               LAMBDA r : \A i \in 1 .. Len(array) : array[i] # r)]

\* fs.writeJson(file, array): the file holds the array and nothing else
FileAfterWrite(file, array) == [exists |-> TRUE, data |-> array]

FsExists(path) ==
  \/ path \in uploads
  \/ \E c \in Colls : path = BackingFile(c) /\ json[c].exists

\* fs.remove(path): the file, or the directory with all that is under it
Removed(path, f) == f = path \/ StartsWith(f, path \o "/")

Touch(st, op, path) ==
  [st EXCEPT !.touched = @ \cup {[op |-> op, path |-> path]}]

\* ---------------------------------------------------------------- history
Success(st) == Len(st.resp) = 1 /\ st.resp[1].status \in {200, 201}

\* the slot p moves to st2; `arrives` when the step is the request's arrival
Step(p, st2, arrives) ==
  LET stillPlain ==
        /\ plain
        /\ arrives => /\ \A q \in Procs \ {p} : ~InFlight(proc[q])
                      /\ st2.req.method \in {"GET", "POST"}
        /\ st2.pc = "done" => Success(st2)
  IN /\ proc' = [proc EXCEPT ![p] = st2]
     /\ plain' = stillPlain
     /\ created' =
          IF ~stillPlain THEN [c \in Colls |-> <<>>]
          ELSE IF st2.pc = "done" /\ st2.req.method = "POST"
          THEN [created EXCEPT ![st2.req.coll] = Append(@, st2.resp[1].body[1])]
          ELSE created

\* ---------------------------------------------------------------- actions
\* The server starts on the files an earlier run left: no backing files, or
\* each holding the one record that run created at time 0.
Init ==
  /\ variant \in Variants
  /\ target \in Colls
  /\ clock = 1
  /\ \E i \in {"missing", "seeded"} :
       /\ json = [c \in Colls |->
                    [exists |-> i # "missing",
                     data |-> IF i = "seeded"
                              THEN <<NewRecord(variant, c, [title |-> "T0", content |-> "C0"],
                                               null, 0)>>
                              ELSE <<>>]]
       /\ plain = (i # "seeded")
  /\ uploads = {}
  /\ proc = [p \in Procs |-> IdleProc]
  /\ started = 0
  /\ created = [c \in Colls |-> <<>>]

\* Time passes between two readings of the clock: the step that reads it
\* finds it at `now`, the millisecond of the last reading or a later one.
\* Times are only ever compared for equality, so a later millisecond is
\* taken to be the next one.
Now == {clock, clock + 1} \cap Ticks

Reads(now) == now \in Now /\ clock' = now

\* A request arrives and Express dispatches it.  A POST that carries a file
\* goes through upload.single("media") first, which names the file and starts
\* storing it; every other request enters its handler, which runs to its
\* first await.
Arrive(p) ==
  /\ ~InFlight(proc[p])
  /\ \A q \in Procs : q < p => InFlight(proc[q])
  /\ started < MaxRequests
  /\ \E r \in Requests(variant, target), now \in Now :
       LET st == [IdleProc EXCEPT !.req = r] IN
       /\ Reads(now)
       /\ Step(p,
            CASE r.method = "POST" /\ r.file # "" ->
                   [st EXCEPT !.pc = "multer",
                              !.path = UploadPath(UploadName(now, r.file))]
              [] r.method = "POST" -> CreateStart(variant, st, null, now)
              [] OTHER -> [st EXCEPT !.pc = "pathExists"],
            TRUE)
  /\ started' = started + 1
  /\ UNCHANGED <<variant, target, json, uploads>>

\* multer's disk storage has written the uploaded file (or failed); the
\* create handler starts
MulterStore(p) ==
  /\ proc[p].pc = "multer"
  /\ \E ok \in BOOLEAN, now \in Now :
       IF ok
       THEN /\ uploads' = uploads \cup {proc[p].path}
            /\ Reads(now)
            /\ Step(p, CreateStart(variant,
                                   [Touch(proc[p], "write", proc[p].path)
                                      EXCEPT !.path = ""],
                                   proc[p].path, now),
                    FALSE)
       ELSE /\ uploads' = uploads
            /\ Reads(clock)
            /\ Step(p, MulterError(proc[p], "multer"), FALSE)
  /\ UNCHANGED <<variant, target, json, started>>

\* await fs.writeFile(filePath, base64Data, ...) of the inline image
WriteInline(p) ==
  /\ proc[p].pc = "writeInline"
  /\ \E ok \in BOOLEAN, now \in Now :
       IF ok
       THEN /\ uploads' = uploads \cup {proc[p].path}
            /\ Reads(now)
            /\ Step(p, CreateAfterInline(variant,
                                         Touch(proc[p], "write", proc[p].path),
                                         now),
                    FALSE)
       ELSE /\ uploads' = uploads
            /\ Reads(clock)
            /\ \E st2 \in Throw(variant, proc[p], "writeInline") : Step(p, st2, FALSE)
  /\ UNCHANGED <<variant, target, json, started>>

\* loadData: await fs.pathExists(filePath) (pathExists never throws)
PathExists(p) ==
  /\ proc[p].pc = "pathExists"
  /\ Step(p,
          [proc[p] EXCEPT !.pc = LoadNext(json[proc[p].req.coll].exists)],
          FALSE)
  /\ UNCHANGED <<variant, target, clock, json, uploads, started>>

\* loadData: await fs.writeJson(filePath, [])
WriteInit(p) ==
  /\ proc[p].pc = "writeInit"
  /\ LET c == proc[p].req.coll IN
     \E ok \in BOOLEAN :
       IF ok
       THEN /\ json' = [json EXCEPT ![c] = FileAfterWrite(@, <<>>)]
            /\ Step(p, [Touch(proc[p], "init", BackingFile(c))
                          EXCEPT !.pc = "readJson"], FALSE)
       ELSE /\ json' = json
            /\ \E st2 \in Throw(variant, proc[p], "writeInit") : Step(p, st2, FALSE)
  /\ UNCHANGED <<variant, target, clock, uploads, started>>

\* loadData: return fs.readJson(filePath); the handler goes on with the array
ReadJson(p) ==
  /\ proc[p].pc = "readJson"
  /\ LET c == proc[p].req.coll IN
     \E ok \in BOOLEAN, now \in Now :
       IF ok /\ json[c].exists
       THEN /\ Reads(IF proc[p].req.method = "PUT" THEN now ELSE clock)
            /\ Step(p, AfterLoad(variant, proc[p], json[c].data, clock'), FALSE)
       ELSE /\ Reads(clock)
            /\ \E st2 \in Throw(variant, proc[p], "readJson") : Step(p, st2, FALSE)
  /\ UNCHANGED <<variant, target, json, uploads, started>>

\* delete: if (await fs.pathExists(filePath)) ...
MediaExists(p) ==
  /\ proc[p].pc = "mediaExists"
  /\ Step(p,
          [proc[p] EXCEPT !.pc = IF FsExists(proc[p].path)
                                 THEN "remove" ELSE "writeJson"],
          FALSE)
  /\ UNCHANGED <<variant, target, clock, json, uploads, started>>

\* delete: await fs.remove(filePath)
Remove(p) ==
  /\ proc[p].pc = "remove"
  /\ LET path == proc[p].path IN
     \E ok \in BOOLEAN :
       IF ok
       THEN /\ uploads' = {f \in uploads : ~Removed(path, f)}
            /\ json' = [c \in Colls |->
                          IF Removed(path, BackingFile(c))
                          THEN [exists |-> FALSE, data |-> <<>>]
                          ELSE json[c]]
            /\ Step(p, [Touch(proc[p], "remove", path) EXCEPT !.pc = "writeJson"],
                    FALSE)
       ELSE /\ UNCHANGED <<uploads, json>>
            /\ \E st2 \in Throw(variant, proc[p], "remove") : Step(p, st2, FALSE)
  /\ UNCHANGED <<variant, target, clock, started>>

\* await fs.writeJson(FILE, array, { spaces: 2 }); then the response
WriteJson(p) ==
  /\ proc[p].pc = "writeJson"
  /\ LET c == proc[p].req.coll IN
     \E ok \in BOOLEAN :
       IF ok
       THEN /\ json' = [json EXCEPT ![c] = FileAfterWrite(@, proc[p].data)]
            /\ Step(p, AfterWrite(Touch(proc[p], "write", BackingFile(c))), FALSE)
       ELSE /\ json' = json
            /\ \E st2 \in Throw(variant, proc[p], "writeJson") : Step(p, st2, FALSE)
  /\ UNCHANGED <<variant, target, clock, uploads, started>>

Next ==
  \/ \E p \in Procs : Arrive(p)
  \/ \E p \in Procs : MulterStore(p)
  \/ \E p \in Procs : WriteInline(p)
  \/ \E p \in Procs : PathExists(p)
  \/ \E p \in Procs : WriteInit(p)
  \/ \E p \in Procs : ReadJson(p)
  \/ \E p \in Procs : MediaExists(p)
  \/ \E p \in Procs : Remove(p)
  \/ \E p \in Procs : WriteJson(p)

Spec == Init /\ [][Next]_vars

\* ============================================================= contact.ts
\* The contact-form mailer: one route, POST /send, no files.  Each of name,
\* email and message is absent from the parsed body, empty, or a text.
MailFields == {"name", "email", "message"}
MailTexts == {"", "a", "b"}

SendBodies == UNION {[fs -> MailTexts] : fs \in SUBSET MailFields}

SendRequests == {Req("POST", "send", 0, b, "") : b \in SendBodies}

\* !name || !email || !message
MissingField(body) ==
  \/ Falsy(Get(body, "name"))
  \/ Falsy(Get(body, "email"))
  \/ Falsy(Get(body, "message"))

\* subject: `New message from ${name}`
Subject(name) == "New message from " \o name

\* res.status(s).json(...) of the mail handler; the request stays on record
SendRespond(st, s) ==
  [st EXCEPT !.pc = "done", !.resp = Append(@, [status |-> s, body |-> <<>>])]

\* transporter.sendMail({...}) is called and awaited
StartSend(st) ==
  [Touch(st, "send", Subject(Get(st.req.body, "name")))
     EXCEPT !.pc = "sendMail", !.sends = @ + 1]

\* a handler that calls sendMail once more after it rejected
AfterSendRetry(st, ok) ==
  IF ok THEN SendRespond(st, 200)
  ELSE IF st.sends < 2 THEN StartSend(st)
  ELSE SendRespond([st EXCEPT !.failed = "sendMail"], 500)

\* the awaited sendMail settles: 200 after it resolved, catch and 500 after
\* it rejected
AfterSend(st, ok) ==
  IF ok THEN SendRespond(st, 200)
  ELSE SendRespond([st EXCEPT !.failed = "sendMail"], 500)

\* the handler from its entry to its first await, or to the 400
SendStart(st) ==
  IF MissingField(st.req.body) THEN SendRespond(st, 400) ELSE StartSend(st)

\* the mailer keeps no files: the store's variables stay as they start
MailInit ==
  /\ variant = "contact.ts"
  /\ target = "posts"
  /\ clock = 1
  /\ json = [c \in Colls |-> [exists |-> FALSE, data |-> <<>>]]
  /\ uploads = {}
  /\ proc = [p \in Procs |-> IdleProc]
  /\ started = 0
  /\ plain = FALSE
  /\ created = [c \in Colls |-> <<>>]

\* a POST /send arrives and its handler runs to the await, or answers 400
SendArrive(p) ==
  /\ ~InFlight(proc[p])
  /\ \A q \in Procs : q < p => InFlight(proc[q])
  /\ started < MaxRequests
  /\ \E r \in SendRequests :
       proc' = [proc EXCEPT ![p] = SendStart([IdleProc EXCEPT !.req = r])]
  /\ started' = started + 1
  /\ UNCHANGED <<variant, target, clock, json, uploads, plain, created>>

\* await transporter.sendMail(...) resolves or rejects
SendMail(p) ==
  /\ proc[p].pc = "sendMail"
  /\ \E ok \in BOOLEAN : proc' = [proc EXCEPT ![p] = AfterSend(proc[p], ok)]
  /\ UNCHANGED <<variant, target, clock, json, uploads, started, plain, created>>

MailNext ==
  \/ \E p \in Procs : SendArrive(p)
  \/ \E p \in Procs : SendMail(p)

MailSpec == MailInit /\ [][MailNext]_vars

\* ================================================================ claims
Done(p) == proc[p].pc = "done"
Answered(p, s) == Done(p) /\ Len(proc[p].resp) = 1 /\ proc[p].resp[1].status = s
Method(p) == proc[p].req.method
Coll(p) == proc[p].req.coll
Reverse(s) == [i \in 1 .. Len(s) |-> s[Len(s) + 1 - i]]

\* the step in which slot p's awaited writeJson succeeds and the handler answers
WriteAnswers(p) ==
  /\ proc[p].pc = "writeJson"
  /\ proc'[p].pc = "done"
  /\ Success(proc'[p])

\* C1: no two records of a collection's backing file have the same id.
C1_UniqueIds ==
  \A c \in Colls : \A i, j \in 1 .. Len(json[c].data) :
    i # j => json[c].data[i].id # json[c].data[j].id

\* C2: after creates that ran one after another, each with success, on a
\* backing file that was missing or empty, with nothing else but lists, the
\* backing file and every list response hold exactly the records the creates
\* returned, the most recently created first.
C2_ListReverseCreation ==
  plain =>
    /\ \A c \in Colls : json[c].data = Reverse(created[c])
    /\ \A p \in Procs :
         Answered(p, 200) /\ Method(p) = "GET"
           => proc[p].resp[1].body = Reverse(created[Coll(p)])

\* two creates at different milliseconds are done, the later one at the head
C2_TwoCreatesListed ==
  /\ plain
  /\ \A p \in Procs : ~InFlight(proc[p])
  /\ Len(created[target]) = 2
  /\ created[target][1].id # created[target][2].id
  /\ json[target].data[1] = created[target][2]

\* C3: a write that succeeds leaves in the backing file the array of the
\* request that wrote, whatever the file held: the later write wins.
C3_LastWriteWins ==
  [][\A p \in Procs :
       WriteAnswers(p) => json'[Coll(p)].data = proc[p].data]_vars

\* two overlapping creates both answered 201 and the file holds only the
\* record of the second
C3_LostUpdate ==
  /\ \A p \in Procs : Answered(p, 201) /\ Method(p) = "POST"
  /\ proc[1].resp[1].body # proc[2].resp[1].body
  /\ \E i \in 1 .. Len(json[target].data) :
       json[target].data[i] = proc[2].resp[1].body[1]
  /\ \A i \in 1 .. Len(json[target].data) :
       json[target].data[i] # proc[1].resp[1].body[1]

\* C4: a create that fails validation (400) has written no file, neither the
\* backing file nor one in the uploads directory.
C4_InvalidCreateWritesNothing ==
  \A p \in Procs :
    Answered(p, 400) /\ Method(p) = "POST" => proc[p].touched = {}

\* C5: a delete whose removal of the media file failed still answers with
\* the deletion confirmation.
C5_DeleteSurvivesRemoveFailure ==
  [][\A p \in Procs :
       /\ proc[p].pc = "remove"
       /\ StartsWith(proc[p].path, UPLOAD_DIR \o "/")
       /\ proc'[p].failed = "remove"
       => /\ Len(proc'[p].resp) = 1
          /\ proc'[p].resp[1].status = 200
          /\ json'[Coll(p)].data = proc[p].data]_vars

\* C6: a successful delete writes the loaded array less exactly one record,
\* the one with the id, the others in their order, and the media file of the
\* removed record is no longer in the uploads directory.
C6_DeleteRemovesRecordAndMedia ==
  [][\A p \in Procs :
       WriteAnswers(p) /\ Method(p) = "DELETE" =>
         LET old == proc[p].loaded
             new == json'[Coll(p)].data
             id == proc[p].req.id
         IN /\ Len(new) = Len(old) - 1
            /\ \E k \in 1 .. Len(old) :
                 /\ old[k].id = id
                 /\ new = [i \in 1 .. (Len(old) - 1) |->
                             IF i < k THEN old[i] ELSE old[i + 1]]
            /\ \A i \in 1 .. Len(new) : new[i].id # id
            /\ \A k \in 1 .. Len(old) :
                 old[k].id = id /\ HasUploadedMedia(old[k])
                   => PathJoin(old[k].media) \notin uploads']_vars

\* C7 as stated: an update or delete answered 404 has written no file.
C7_NotFoundLeavesFilesUnchanged ==
  \A p \in Procs :
    Answered(p, 404) /\ Method(p) \in {"PUT", "DELETE"} => proc[p].touched = {}

\* C7 amended: an update or delete answered 404 has written or removed no
\* file, except that loadData has written the empty array to the backing
\* file; and a request comes to write the empty array only from finding the
\* backing file missing.
C7_NotFoundOnlyInitialises ==
  [][\A p \in Procs :
       /\ (proc'[p].pc = "done" /\ Len(proc'[p].resp) = 1
             /\ proc'[p].resp[1].status = 404
             /\ proc'[p].req.method \in {"PUT", "DELETE"})
            => proc'[p].touched
                 \subseteq {[op |-> "init", path |-> BackingFile(proc'[p].req.coll)]}
       /\ (proc[p].pc # "writeInit" /\ proc'[p].pc = "writeInit")
            => ~json[proc'[p].req.coll].exists]_vars

\* an update or delete of an unknown id found no backing file and left an
\* empty one
C7_NotFoundCreatedFile ==
  \E p \in Procs :
    /\ Answered(p, 404) /\ Method(p) \in {"PUT", "DELETE"}
    /\ proc[p].touched = {[op |-> "init", path |-> BackingFile(Coll(p))]}
    /\ json[Coll(p)].exists

\* C8: whenever a backing file is written, every record of the written array
\* whose media is not null refers to a file that is in the uploads directory.
C8_WrittenMediaExists ==
  [][\A c \in Colls :
       json'[c] # json[c] /\ json'[c].exists =>
         \A i \in 1 .. Len(json'[c].data) :
           LET m == json'[c].data[i].media IN
           m # null => /\ StartsWith(PathJoin(m), UPLOAD_DIR \o "/")
                       /\ PathJoin(m) \in uploads']_vars

\* C9: a request whose handler is over has exactly one response, and a 5xx
\* one when a file operation failed.
C9_EveryRequestAnswered ==
  \A p \in Procs :
    Done(p) => /\ Len(proc[p].resp) = 1
               /\ proc[p].failed # "" => proc[p].resp[1].status >= 500

\* C10: an update that finds the id changes only the first record with it:
\* the body's fields take the body's values, the other fields keep theirs,
\* updatedAt is the server's time; the array is otherwise as loaded, it is
\* what the file then holds, and the response is the merged record.
C10_UpdateMergesFirstMatch ==
  [][\A p \in Procs : Method(p) = "PUT" =>
       /\ (proc[p].pc = "readJson" /\ proc'[p].pc = "writeJson") =>
            LET old == json[Coll(p)].data
                new == proc'[p].data
                body == proc[p].req.body
            IN /\ Len(new) = Len(old)
               /\ \E k \in 1 .. Len(old) :
                    /\ old[k].id = proc[p].req.id
                    /\ \A j \in 1 .. (k - 1) : old[j].id # proc[p].req.id
                    /\ \A j \in 1 .. Len(old) : j # k => new[j] = old[j]
                    /\ DOMAIN new[k] = DOMAIN old[k] \cup DOMAIN body \cup {"updatedAt"}
                    /\ \A f \in DOMAIN body \ {"updatedAt"} : new[k][f] = body[f]
                    /\ \A f \in DOMAIN old[k] \ (DOMAIN body \cup {"updatedAt"}) :
                         new[k][f] = old[k][f]
                    /\ new[k].updatedAt = clock'
                    /\ proc'[p].rec = <<new[k]>>
       /\ WriteAnswers(p) =>
            /\ json'[Coll(p)].data = proc[p].data
            /\ proc'[p].resp[1].status = 200
            /\ proc'[p].resp[1].body = proc[p].rec
            /\ \E i \in 1 .. Len(proc[p].data) : proc[p].data[i] = proc[p].rec[1]]_vars

\* an update whose body gave its own id, createdAt and updatedAt is answered:
\* the record created at a tick has them, but for updatedAt, and the file
\* holds another record
C10_UpdatedWithOwnStamp ==
  \E p \in Procs :
    /\ Answered(p, 200) /\ Method(p) = "PUT"
    /\ proc[p].req.id >= 1
    /\ proc[p].resp[1].body[1].createdAt = 0
    /\ proc[p].resp[1].body[1].updatedAt >= 1
    /\ Len(json[Coll(p)].data) >= 2

\* the records of collection c's backing file
Holds(file, r) == \E i \in 1 .. Len(file.data) : file.data[i] = r

\* C11: an update leaves the createdAt of the record it changes as it was.
C11_CreatedAtSetOnce ==
  [][\A p \in Procs :
       Method(p) = "PUT" /\ proc[p].pc = "readJson" /\ proc'[p].pc = "writeJson"
       => \E k \in 1 .. Len(json[Coll(p)].data) :
            /\ json[Coll(p)].data[k].id = proc[p].req.id
            /\ \A j \in 1 .. (k - 1) : json[Coll(p)].data[j].id # proc[p].req.id
            /\ proc'[p].data[k].createdAt = json[Coll(p)].data[k].createdAt]_vars

\* C12: the record a create returned is in the backing file when the create
\* answers, field for field, and stays there through every step that is not
\* the write of an update or a delete of its id.
C12_CreateThenListRoundTrip ==
  [][\A p \in Procs :
       /\ WriteAnswers(p) /\ Method(p) = "POST"
            => Holds(json'[Coll(p)], proc'[p].resp[1].body[1])
       /\ (/\ Answered(p, 201) /\ Method(p) = "POST"
           /\ proc'[p] = proc[p]
           /\ Holds(json[Coll(p)], proc[p].resp[1].body[1])
           /\ ~ \E q \in Procs :
                  /\ proc[q].pc = "writeJson" /\ proc'[q].pc = "done"
                  /\ Method(q) \in {"PUT", "DELETE"}
                  /\ proc[q].req.id = proc[p].resp[1].body[1].id)
            => Holds(json'[Coll(p)], proc[p].resp[1].body[1])]_vars

\* C13: the record a successful create returns has the documented defaults:
\* a post has type "blog" when the request gave none, link and blogLink null
\* when absent; a project has link null when absent; media is null when the
\* request gave no media; and there is no updatedAt.
C13_CreateDefaults ==
  [][\A p \in Procs :
       WriteAnswers(p) /\ Method(p) = "POST" =>
         LET r == proc'[p].resp[1].body[1]
             b == proc[p].req.body
         IN /\ "updatedAt" \notin DOMAIN r
            /\ "link" \in DOMAIN r
            /\ "link" \notin DOMAIN b => r.link = null
            /\ Coll(p) = "posts" =>
                 /\ "type" \in DOMAIN r /\ "blogLink" \in DOMAIN r
                 /\ "type" \notin DOMAIN b => r.type = "blog"
                 /\ "blogLink" \notin DOMAIN b => r.blogLink = null
            /\ (proc[p].req.file = "" /\ "media" \notin DOMAIN b)
                 => r.media = null]_vars

\* C14: no step removes a file outside the uploads directory: a backing file
\* that exists still exists after the step.
C14_DeleteStaysInUploads ==
  [][\A c \in Colls : json[c].exists => json'[c].exists]_vars

\* C15: when a list and a create that overlapped are both over, the list
\* answered 200 and the create 201, the record the create returned is in the
\* backing file.
C15_ListKeepsCreatedRecord ==
  \A p, q \in Procs :
    (/\ Answered(p, 201) /\ Method(p) = "POST"
     /\ Answered(q, 200) /\ Method(q) = "GET")
    => Holds(json[Coll(p)], proc[p].resp[1].body[1])

\* C16: when the rewrite of the backing file fails in a delete, the backing
\* file is as it was and the handler has not removed the record's media file
\* from the uploads directory.
C16_FailedDeleteLeavesStore ==
  [][\A p \in Procs :
       /\ Method(p) = "DELETE"
       /\ proc[p].pc = "writeJson"
       /\ proc'[p].failed = "writeJson"
       /\ StartsWith(proc[p].path, UPLOAD_DIR \o "/")
       => /\ json'[Coll(p)] = json[Coll(p)]
          /\ [op |-> "remove", path |-> proc[p].path] \notin proc[p].touched]_vars

\* C17: every POST /send that is over got exactly one response, and no
\* request makes more than one mail-send attempt: with name, email or message
\* missing or empty the response is 400 and nothing was sent; otherwise
\* sendMail was called once, and the response is 200 when it resolved and 500
\* when it rejected.
C17_SendOnceAnswerOnce ==
  \A p \in Procs :
    LET st == proc[p] IN
    st.pc # "idle" =>
      /\ Len(st.resp) = (IF st.pc = "done" THEN 1 ELSE 0)
      /\ MissingField(st.req.body) =>
            /\ st.pc = "done" /\ st.resp[1].status = 400
            /\ st.sends = 0 /\ st.touched = {}
      /\ ~MissingField(st.req.body) =>
            /\ st.sends = 1
            /\ st.touched = {[op |-> "send", path |-> Subject(st.req.body.name)]}
            /\ st.pc = "done" =>
                 st.resp[1].status = (IF st.failed = "sendMail" THEN 500 ELSE 200)

\* one request was refused with 400 and another answered 500 after its one
\* send was rejected
C17_RefusedAndRejected ==
  \E p, q \in Procs :
    /\ Answered(p, 400) /\ proc[p].sends = 0
    /\ Answered(q, 500) /\ proc[q].sends = 1 /\ proc[q].failed = "sendMail"

====
